---- MODULE Spec2Model ----
(***************************************************************************)
(* Attempt lifecycle and submission scoring of the quiz backend.           *)
(*                                                                         *)
(* The handlers startQuiz and submitQuiz are async functions: every        *)
(* `await` on the storage layer is a point where another request may run,  *)
(* so each handler is a sequence of atomic steps, one per storage          *)
(* operation, and the position of a request is its pc.  Of each request    *)
(* the model keeps the locals the handler keeps (the quiz it read, the     *)
(* count it obtained, the Sequelize instance of the submission, the        *)
(* accumulators of the grading loop, req.user as authenticateToken loaded  *)
(* it).  Numbers with two decimals (score_percentage, average_score) are   *)
(* integers in hundredths; partial credit, similarity and trend are        *)
(* fractions (num, den); texts are sequences of characters.                *)
(*                                                                         *)
(* The helper functions (grading of one answer, similarity, adaptive       *)
(* difficulty) have specifications of their own, which draw the arguments  *)
(* in the initial state and apply the function in one step; the variable   *)
(* call holds the arguments and the result.                                *)
(***************************************************************************)
EXTENDS Integers, Sequences, FiniteSets, TLC

\* ---------------------------------------------------------------- bounds
NumReq == 2          \* request slots that may be in flight together
MaxSubs == 2         \* submissions ever created
MaxTime == 2         \* minutes the clock advances
MaxAnswers == 2      \* length of the answers array of a submit payload
MaxAttemptsArg == 1
MaxAnswerWords == 4
MaxReferenceWords == 2
MaxSimilarityWords == 3
MaxSuggestions == 3
MaxHistory == 6
MaxAttemptSeries == 4  \* largest max_attempts an updateQuiz request sends

\* ------------------------------------------------------ program constants
DefaultMaxAttempts == 3     \* Quiz.max_attempts defaultValue
ScoreMax == 10000           \* score_percentage validate max: 100 (hundredths)
ScoreMin == 0               \* score_percentage validate min: 0

Null == -1
MinPoints == 1
MaxPoints == 10
HistoryLimit == 10
WindowSize == 5                  \* null / undefined of a numeric attribute

Users == {"u1", "u2"}
Owner == "u1"               \* quiz.created_by
Req == 1..NumReq

\* Texts are sequences of characters
Paris == <<"P", "a", "r", "i", "s">>
paris == <<"p", "a", "r", "i", "s">>
rome == <<"r", "o", "m", "e">>

\* The questions of the quiz (Question rows; immutable, no handler writes them)
QuestionIds == {"q1", "q2"}
ForeignQuestionId == "qx"   \* a well-formed id that is not a question of the quiz
Questions ==
  [q \in QuestionIds |->
     IF q = "q1"
       THEN [question_type |-> "multiple_choice", correct_answer |-> Paris, points |-> 2]
       ELSE [question_type |-> "short_answer", correct_answer |-> Paris, points |-> 3]]

AnswerTexts == {paris, rome}

\* time_taken of a payload entry: absent (Null) or a number of seconds
TimesTaken == {Null, 30}

\* the entries of a submit payload: {question_id, answer, time_taken}
AnswerEntries ==
  {e \in [question_id : QuestionIds \cup {ForeignQuestionId}, answer : AnswerTexts,
          time_taken : TimesTaken] :
     e.answer = rome => e.question_id = "q1"}

\* the answers arrays a client sends (validation: a non-empty array)
Payloads ==
  UNION {[1..n -> AnswerEntries] : n \in 1..MaxAnswers}
TimeLimits == {1}           \* time_limit_minutes values a quiz is given
\* partialCredit of an evaluation, a fraction
PartialCredits ==
  {[num |-> n, den |-> 10] : n \in {0, 5, 10, 15}}

\* what the model's reply to aiService.evaluateAnswer parses to
EvalResults ==
  {e \in [isCorrect : BOOLEAN, partialCredit : PartialCredits] :
     e.isCorrect = (e.partialCredit.num >= e.partialCredit.den)}

VARIABLES quiz, submissions, answers, users, now, req, res, max_attempts_peak, call

vars == <<quiz, submissions, answers, users, now, req, res, max_attempts_peak, call>>

\* ------------------------------------------------------------- utilities
RECURSIVE SumSeq(_)
SumSeq(s) == IF s = <<>> THEN 0 ELSE Head(s) + SumSeq(Tail(s))

Max2(a, b) == IF a >= b THEN a ELSE b

\* Math.round of the rational n/d (d > 0): nearest integer, halves upwards
RoundDiv(n, d) == (2 * n + d) \div (2 * d)

\* String.prototype.toLowerCase, character by character
LowerChar(c) ==
  CASE c = "P" -> "p"
    [] c = "R" -> "r"
    [] c = "T" -> "t"
    [] c = "C" -> "c"
    [] c = "S" -> "s"
    [] c = "F" -> "f"
    [] OTHER -> c

ToLowerCase(s) == [i \in 1..Len(s) |-> LowerChar(s[i])]

\* the characters matched by \s
Whitespace == {" ", "\t"}

\* String.prototype.split(/\s+/): the pieces between the maximal runs of
\* whitespace; a leading or trailing run leaves an empty piece, and the empty
\* string gives one empty piece
RECURSIVE Split(_)
Split(s) ==
  LET spaces == {i \in 1..Len(s) : s[i] \in Whitespace}
  IN IF spaces = {} THEN <<s>>
     ELSE LET i == CHOOSE k \in spaces : \A m \in spaces : k <= m
              rest == {k \in (i + 1)..Len(s) : s[k] \notin Whitespace}
              j == IF rest = {} THEN Len(s) + 1
                   ELSE CHOOSE k \in rest : \A m \in rest : k <= m
          IN <<SubSeq(s, 1, i - 1)>> \o Split(SubSeq(s, j, Len(s)))

\* a similarity that counts each common word once
calculateSimilarity_DistinctWords(text1, text2) ==
  LET words1 == Split(text1)
      words2 == Split(text2)
      commonWords == {words1[i] : i \in 1..Len(words1)}
                       \cap {words2[j] : j \in 1..Len(words2)}
  IN [num |-> Cardinality(commonWords),
      den |-> Max2(Len(words1), Len(words2))]

\* calculateSimilarity(text1, text2): commonWords.length over
\* Math.max(words1.length, words2.length), kept as a fraction
calculateSimilarity(text1, text2) ==
  LET words1 == Split(text1)
      words2 == Split(text2)
      commonWords == {i \in 1..Len(words1) :
                        \E j \in 1..Len(words2) : words2[j] = words1[i]}
  IN [num |-> Cardinality(commonWords),
      den |-> Max2(Len(words1), Len(words2))]

\* A Sequelize instance.update(vals): the instance takes the values and the
\* row gets the attributes whose value differs from the instance's
InstanceSet(inst, vals) ==
  [k \in DOMAIN inst |-> IF k \in DOMAIN vals THEN vals[k] ELSE inst[k]]

RowSave(row, inst, vals) ==
  [k \in DOMAIN row |->
     IF k \in DOMAIN vals /\ vals[k] # inst[k] THEN vals[k] ELSE row[k]]

\* ------------------------------------------------------------ Submission
\* Submission.count({user_id, quiz_id, status in (completed, in_progress)})
CountAttempts(u) ==
  Cardinality({i \in 1..Len(submissions) :
                 /\ submissions[i].user_id = u
                 /\ submissions[i].status \in {"completed", "in_progress"}})

\* a lookup that never finds the attempt in progress
InProgressIds_NotFound(u) == {}

\* Submission.findOne({user_id, quiz_id, status: in_progress}): the ids found
InProgressIds(u) ==
  {i \in 1..Len(submissions) :
     submissions[i].user_id = u /\ submissions[i].status = "in_progress"}

\* a submissions table without the unique index
AttemptNumberFree_NoIndex(u, n) == TRUE

\* unique index (user_id, quiz_id, attempt_number)
AttemptNumberFree(u, n) ==
  \A i \in 1..Len(submissions) :
     ~(submissions[i].user_id = u /\ submissions[i].attempt_number = n)

\* performance_analysis of a submission without one (null)
NoAnalysis == [null |-> TRUE]

\* the row Submission.create stores: the attributes given, the defaults of
\* the others
NewSubmission(u, n) ==
  [user_id |-> u,
   attempt_number |-> n,
   total_questions |-> Cardinality(QuestionIds),
   correct_answers |-> 0,
   score_percentage |-> Null,
   total_points_earned |-> 0,
   total_points_possible |-> SumSeq([k \in 1..2 |-> Questions[IF k = 1 THEN "q1" ELSE "q2"].points]),
   time_taken_minutes |-> Null,
   started_at |-> now,
   completed_at |-> Null,
   improvement_suggestions |-> <<>>,
   performance_analysis |-> NoAnalysis,
   status |-> "in_progress"]

\* ---------------------------------------------------------------- requests
NoInstance == NewSubmission("u1", 0)

NoStats == [total_quizzes_attempted |-> 0, average_score |-> 0]

IdleReq ==
  [pc |-> "idle", user |-> "u1", userStats |-> NoStats,
   quiz |-> [max_attempts |-> 0, is_active |-> FALSE, time_limit_minutes |-> Null],
   existingAttempts |-> 0,
   submission_id |-> 0, submission |-> NoInstance,
   answers |-> <<>>, idx |-> 0,
   totalPointsEarned |-> 0, correctAnswers |-> 0, answerResults |-> <<>>]

\* res is the response the server sent last: the handler (slot) that sent it,
\* the HTTP status, the error code, the data of a start response and the
\* can_retry flag of a submit response
NoResponse ==
  [by |-> 0, code |-> 0, error |-> "none", submission_id |-> 0, attempt_number |-> 0,
   can_retry |-> FALSE]

Response(r, code, error, sid, n) ==
  [by |-> r, code |-> code, error |-> error, submission_id |-> sid, attempt_number |-> n,
   can_retry |-> FALSE]

\* the handler of slot r returns after sending its response
Finish(r, code, error, sid, n) ==
  /\ req' = [req EXCEPT ![r] = IdleReq]
  /\ res' = Response(r, code, error, sid, n)

\* a request is served in the lowest free slot
FreeSlot(r) ==
  /\ req[r].pc = "idle"
  /\ \A r2 \in Req : r2 < r => req[r2].pc # "idle"

\* no helper function is being evaluated
NoCall == [fn |-> "none"]

Init ==
  /\ quiz \in [max_attempts : 1..DefaultMaxAttempts, is_active : {TRUE},
               time_limit_minutes : {Null} \cup TimeLimits]
  /\ submissions = <<>>
  /\ answers = <<>>
  /\ users = [u \in Users |-> NoStats]
  /\ now = 0
  /\ req = [r \in Req |-> IdleReq]
  /\ res = NoResponse
  /\ max_attempts_peak = quiz.max_attempts
  /\ call = NoCall

\* Time passes.  The handlers read the clock only as a difference to the
\* started_at of an open attempt, so the clock stands while none is open.
Tick ==
  /\ now < MaxTime
  /\ quiz.time_limit_minutes # Null
  /\ \E i \in 1..Len(submissions) : submissions[i].status = "in_progress"
  /\ now' = now + 1
  /\ UNCHANGED <<quiz, submissions, answers, users, req, res, max_attempts_peak, call>>

\* QuizController.updateQuiz: the owner replaces the attributes sent
UpdateQuiz(u, ma, active) ==
  /\ u = Owner
  /\ quiz' = [quiz EXCEPT !.max_attempts = ma, !.is_active = active]
  /\ quiz' # quiz
  /\ max_attempts_peak' = Max2(max_attempts_peak, ma)
  /\ UNCHANGED <<submissions, answers, users, now, req, res, call>>

\* --------------------------------------------------------------- startQuiz
\* Quiz.findByPk and the QUIZ_INACTIVE check
StartQuiz(r, u) ==
  /\ FreeSlot(r)
  /\ IF ~quiz.is_active
       THEN Finish(r, 400, "QUIZ_INACTIVE", 0, 0)
       ELSE /\ req' = [req EXCEPT ![r] =
                      [IdleReq EXCEPT !.pc = "start_count", !.user = u, !.quiz = quiz]]
            /\ UNCHANGED res
  /\ UNCHANGED <<quiz, submissions, answers, users, now, max_attempts_peak, call>>

\* the limit compared with > instead of >=
AttemptLimitReached_OffByOne(existingAttempts, max_attempts) == existingAttempts > max_attempts

\* the attempt limit: existingAttempts >= quiz.max_attempts
AttemptLimitReached(existingAttempts, max_attempts) == existingAttempts >= max_attempts

\* Submission.count and the MAX_ATTEMPTS_REACHED check
StartCount(r) ==
  /\ req[r].pc = "start_count"
  /\ LET existingAttempts == CountAttempts(req[r].user)
     IN IF AttemptLimitReached(existingAttempts, req[r].quiz.max_attempts)
          THEN Finish(r, 400, "MAX_ATTEMPTS_REACHED", 0, 0)
          ELSE /\ req' = [req EXCEPT ![r].pc = "start_find",
                                     ![r].existingAttempts = existingAttempts]
               /\ UNCHANGED res
  /\ UNCHANGED <<quiz, submissions, answers, users, now, max_attempts_peak, call>>

\* Submission.findOne of an in_progress submission: resume it when there is one
StartFind(r) ==
  /\ req[r].pc = "start_find"
  /\ IF InProgressIds(req[r].user) # {}
       THEN \E i \in InProgressIds(req[r].user) :
              Finish(r, 200, "none", i, 0)
       ELSE /\ req' = [req EXCEPT ![r].pc = "start_create"]
            /\ UNCHANGED res
  /\ UNCHANGED <<quiz, submissions, answers, users, now, max_attempts_peak, call>>

\* numbering from the count itself
NextAttemptNumber_FromZero(existingAttempts) == existingAttempts

\* attempt_number: existingAttempts + 1
NextAttemptNumber(existingAttempts) == existingAttempts + 1

\* Submission.create; the unique index rejects a used attempt_number and the
\* handler answers 500
StartCreateUpTo(r, cap) ==
  /\ req[r].pc = "start_create"
  /\ LET n == NextAttemptNumber(req[r].existingAttempts)
     IN IF AttemptNumberFree(req[r].user, n)
          THEN /\ Len(submissions) < cap
               /\ submissions' = Append(submissions, NewSubmission(req[r].user, n))
               /\ Finish(r, 201, "none", Len(submissions) + 1, n)
          ELSE /\ Finish(r, 500, "Failed to start quiz", 0, 0)
               /\ UNCHANGED submissions
  /\ UNCHANGED <<quiz, answers, users, now, max_attempts_peak, call>>

StartCreate(r) == StartCreateUpTo(r, MaxSubs)

\* -------------------------------------------------------------- submitQuiz
\* a lookup by id alone
SubmissionFound_AnyOwner(sid, u) == sid \in 1..Len(submissions)

\* Submission.findOne({id, user_id}): the row is found
SubmissionFound(sid, u) ==
  sid \in 1..Len(submissions) /\ submissions[sid].user_id = u

\* the limit compared with >= instead of >
TimeLimitExceeded_Inclusive(limit, started_at, t) ==
  limit # Null /\ (t - started_at) >= limit

\* timeElapsed > time_limit_minutes, for a quiz that has a limit
TimeLimitExceeded(limit, started_at, t) ==
  limit # Null /\ (t - started_at) > limit

\* authenticateToken loads req.user; Submission.findOne with its quiz; the
\* SUBMISSION_NOT_FOUND and QUIZ_NOT_IN_PROGRESS checks and the time check
SubmitQuiz(r, u, sid, payload) ==
  /\ FreeSlot(r)
  /\ IF ~SubmissionFound(sid, u)
       THEN Finish(r, 404, "SUBMISSION_NOT_FOUND", 0, 0)
       ELSE IF submissions[sid].status # "in_progress"
              THEN Finish(r, 400, "QUIZ_NOT_IN_PROGRESS", 0, 0)
              ELSE /\ req' = [req EXCEPT ![r] =
                        [IdleReq EXCEPT
                           !.pc = IF TimeLimitExceeded(quiz.time_limit_minutes,
                                                       submissions[sid].started_at, now)
                                    THEN "submit_expire" ELSE "submit_grade",
                           !.user = u, !.userStats = users[u], !.quiz = quiz,
                           !.submission_id = sid, !.submission = submissions[sid],
                           !.answers = payload, !.idx = 1]]
                   /\ UNCHANGED res
  /\ UNCHANGED <<quiz, submissions, answers, users, now, max_attempts_peak, call>>

\* submission.update({status: 'expired'}) and the TIME_LIMIT_EXCEEDED response
SubmitExpire(r) ==
  /\ req[r].pc = "submit_expire"
  /\ LET sid == req[r].submission_id
         vals == [status |-> "expired"]
     IN submissions' = [submissions EXCEPT
                          ![sid] = RowSave(submissions[sid], req[r].submission, vals)]
  /\ Finish(r, 400, "TIME_LIMIT_EXCEEDED", 0, 0)
  /\ UNCHANGED <<quiz, answers, users, now, max_attempts_peak, call>>

\* the loop `for (const userAnswer of answers)` skips (continue) the entries
\* whose question_id is no question of the quiz: the next entry it grades
RECURSIVE NextGraded(_, _)
NextGraded(payload, i) ==
  IF i > Len(payload) THEN i
  ELSE IF payload[i].question_id \in QuestionIds THEN i
  ELSE NextGraded(payload, i + 1)

\* an objective answer compared without folding the case
GradeObjective_CaseSensitive(question, answer) ==
  [is_correct |-> answer = question.correct_answer,
   points_earned |-> IF answer = question.correct_answer THEN question.points ELSE 0]

\* isCorrect and pointsEarned of one answer
GradeObjective(question, answer) ==
  LET isCorrect == ToLowerCase(answer) = ToLowerCase(question.correct_answer)
  IN [is_correct |-> isCorrect,
      points_earned |-> IF isCorrect THEN question.points ELSE 0]

GradeOpen(question, evaluation) ==
  [is_correct |-> evaluation.isCorrect,
   points_earned |-> RoundDiv(question.points * evaluation.partialCredit.num,
                              evaluation.partialCredit.den)]

\* the fallback of aiService.evaluateAnswer: isCorrect = similarity > 0.7,
\* partialCredit = similarity
FallbackEvaluation(userAnswer, correctAnswer) ==
  LET similarity == calculateSimilarity(ToLowerCase(userAnswer),
                                        ToLowerCase(correctAnswer))
  IN [isCorrect |-> 10 * similarity.num > 7 * similarity.den,
      partialCredit |-> similarity]

\* aiService.evaluateAnswer: the fallback when the service is unavailable or
\* its call fails (the error is caught inside), else the parsed reply
evaluateAnswer(userAnswer, correctAnswer, service) ==
  IF service.kind = "reply" THEN service.evaluation
  ELSE FallbackEvaluation(userAnswer, correctAnswer)

\* the body of the grading loop for one answer
GradeAnswer(question, answer, service) ==
  IF question.question_type \in {"multiple_choice", "true_false"}
    THEN GradeObjective(question, answer)
    ELSE GradeOpen(question, evaluateAnswer(answer, question.correct_answer, service))

\* an answers table without the unique index
AnswerPairFree_NoIndex(sid, q) == TRUE

\* unique index (submission_id, question_id) of answers
AnswerPairFree(sid, q) ==
  \A k \in 1..Len(answers) :
     ~(answers[k].submission_id = sid /\ answers[k].question_id = q)

\* one iteration of the grading loop: evaluate the answer, Answer.create, push
\* to answerResults; a rejected insert throws and the handler answers 500
SubmitAnswer(r, evaluation) ==
  /\ req[r].pc = "submit_grade"
  /\ LET i == NextGraded(req[r].answers, req[r].idx)
     IN /\ i <= Len(req[r].answers)
        /\ LET q == req[r].answers[i].question_id
               question == Questions[q]
               objective == question.question_type \in {"multiple_choice", "true_false"}
               g == IF objective
                      THEN GradeObjective(question, req[r].answers[i].answer)
                      ELSE GradeOpen(question, evaluation)
               sid == req[r].submission_id
           IN /\ objective => evaluation = CHOOSE e \in EvalResults : TRUE
              /\ IF AnswerPairFree(sid, q)
                   THEN /\ answers' = Append(answers,
                              [submission_id |-> sid, question_id |-> q,
                               is_correct |-> g.is_correct,
                               points_earned |-> g.points_earned,
                               time_taken_seconds |->
                                 req[r].answers[i].time_taken])
                        /\ req' = [req EXCEPT
                              ![r].idx = i + 1,
                              ![r].correctAnswers = @ + (IF g.is_correct THEN 1 ELSE 0),
                              ![r].totalPointsEarned = @ + g.points_earned,
                              ![r].answerResults = Append(@,
                                 [question_id |-> q, is_correct |-> g.is_correct,
                                  points_earned |-> g.points_earned])]
                        /\ UNCHANGED res
                   ELSE /\ Finish(r, 500, "Failed to submit quiz", 0, 0)
                        /\ UNCHANGED answers
  /\ UNCHANGED <<quiz, submissions, users, now, max_attempts_peak, call>>

\* after the loop: submission.update({correct_answers, total_points_earned,
\* status: 'completed'})
SubmitUpdate(r) ==
  /\ req[r].pc = "submit_grade"
  /\ NextGraded(req[r].answers, req[r].idx) > Len(req[r].answers)
  /\ LET sid == req[r].submission_id
         vals == [correct_answers |-> req[r].correctAnswers,
                  total_points_earned |-> req[r].totalPointsEarned,
                  status |-> "completed"]
     IN /\ submissions' = [submissions EXCEPT
                             ![sid] = RowSave(submissions[sid], req[r].submission, vals)]
        /\ req' = [req EXCEPT ![r].pc = "submit_complete",
                              ![r].submission = InstanceSet(@, vals)]
  /\ UNCHANGED <<quiz, answers, users, now, res, max_attempts_peak, call>>

\* Submission.prototype.calculateScore, in hundredths of a percent
calculateScore(s) ==
  IF s.total_points_possible = 0 THEN 0
  ELSE RoundDiv(s.total_points_earned * 100 * 100, s.total_points_possible)

\* the validators of Submission.score_percentage (min 0, max 100)
ScoreValid(score) == ScoreMin <= score /\ score <= ScoreMax

\* Submission.prototype.completeSubmission; an update that fails validation
\* throws, nothing is written and the handler answers 500
SubmitComplete(r) ==
  /\ req[r].pc = "submit_complete"
  /\ LET sid == req[r].submission_id
         inst == req[r].submission
         vals == [completed_at |-> now,
                  time_taken_minutes |-> IF inst.started_at # Null
                                           THEN now - inst.started_at ELSE Null,
                  status |-> "completed",
                  score_percentage |-> calculateScore(inst)]
     IN IF ScoreValid(vals.score_percentage)
          THEN /\ submissions' = [submissions EXCEPT
                                    ![sid] = RowSave(submissions[sid], inst, vals)]
               /\ req' = [req EXCEPT ![r].pc = "submit_stats",
                                     ![r].submission = InstanceSet(@, vals)]
               /\ UNCHANGED res
          ELSE /\ Finish(r, 500, "Failed to submit quiz", 0, 0)
               /\ UNCHANGED submissions
  /\ UNCHANGED <<quiz, answers, users, now, max_attempts_peak, call>>

\* User.prototype.updateStats on req.user
updateStats(stats, newScore) ==
  LET totalAttempts == stats.total_quizzes_attempted + 1
  IN [total_quizzes_attempted |-> totalAttempts,
      average_score |->
        RoundDiv(stats.average_score * stats.total_quizzes_attempted + newScore,
                 totalAttempts)]

SubmitStats(r) ==
  /\ req[r].pc = "submit_stats"
  /\ LET u == req[r].user
         vals == updateStats(req[r].userStats, req[r].submission.score_percentage)
     IN /\ users' = [users EXCEPT ![u] = RowSave(users[u], req[r].userStats, vals)]
        /\ req' = [req EXCEPT ![r].pc = "submit_feedback",
                              ![r].userStats = InstanceSet(@, vals)]
  /\ UNCHANGED <<quiz, submissions, answers, now, res, max_attempts_peak, call>>

\* the arrays a reply of the Generation Service can parse to
SuggestionTexts == <<"s1", "s2", "s3", "s4">>
SuggestionArrays == {SubSeq(SuggestionTexts, 1, n) : n \in 0..MaxSuggestions}

\* the outcomes of the call made by generateImprovementSuggestions
SuggestionServices ==
  {[kind |-> "unavailable"], [kind |-> "failed"], [kind |-> "no array"]}
    \cup {[kind |-> "reply", body |-> a] : a \in SuggestionArrays}

\* aiService.generateImprovementSuggestions: fixed pairs when the service is
\* unavailable, fails or replies something that is no array, else the array
generateImprovementSuggestions(service) ==
  CASE service.kind = "unavailable" ->
         <<"Review the questions you got wrong and study the explanations provided.",
           "Practice more questions on the topics you found challenging.">>
    [] service.kind = "failed" ->
         <<"Review your incorrect answers and study the explanations provided.",
           "Practice more questions on the topics you found challenging.">>
    [] service.kind = "no array" ->
         <<"Review the concepts you missed and try practicing similar problems.",
           "Consider asking your teacher for extra help on the topics you found challenging.">>
    [] OTHER -> service.body

\* improvementSuggestions of a submit: [] unless an answer is incorrect
ImprovementSuggestions(answerResults, service) ==
  IF \E n \in 1..Len(answerResults) : ~answerResults[n].is_correct
    THEN generateImprovementSuggestions(service)
    ELSE <<>>

RECURSIVE QuestionIdsOf(_)
QuestionIdsOf(results) ==
  IF results = <<>> THEN <<>>
  ELSE <<Head(results).question_id>> \o QuestionIdsOf(Tail(results))

IsCorrectResult(result) == result.is_correct
IsIncorrectResult(result) == ~result.is_correct

\* r.time_taken_seconds || 0 of an entry of answerResults
ResultTime(result) ==
  IF "time_taken_seconds" \in DOMAIN result /\ result.time_taken_seconds # Null
    THEN result.time_taken_seconds
    ELSE 0

\* answerResults.reduce((sum, r) => sum + (r.time_taken_seconds || 0), 0) /
\* answerResults.length, a fraction (0/0 is NaN)
AverageTime(answerResults) ==
  [num |-> SumSeq([n \in 1..Len(answerResults) |-> ResultTime(answerResults[n])]),
   den |-> Len(answerResults)]

\* performance_analysis of the last submission.update
PerformanceAnalysis(answerResults) ==
  [strengths |-> QuestionIdsOf(SelectSeq(answerResults, IsCorrectResult)),
   weaknesses |-> QuestionIdsOf(SelectSeq(answerResults, IsIncorrectResult)),
   average_time_per_question |-> AverageTime(answerResults)]

\* can_retry: submission.attempt_number < submission.quiz.max_attempts
CanRetry(submission, submission_quiz) ==
  submission.attempt_number < submission_quiz.max_attempts

\* the suggestions, the last submission.update and the response
SubmitFeedback(r, service) ==
  /\ req[r].pc = "submit_feedback"
  /\ (\A n \in 1..Len(req[r].answerResults) : req[r].answerResults[n].is_correct)
       => service = [kind |-> "unavailable"]
  /\ LET sid == req[r].submission_id
         vals == [improvement_suggestions |->
                    ImprovementSuggestions(req[r].answerResults, service),
                  performance_analysis |-> PerformanceAnalysis(req[r].answerResults)]
     IN submissions' = [submissions EXCEPT
                          ![sid] = RowSave(@, req[r].submission, vals)]
  /\ req' = [req EXCEPT ![r] = IdleReq]
  /\ res' = [Response(r, 200, "none", req[r].submission_id,
                      req[r].submission.attempt_number)
               EXCEPT !.can_retry = CanRetry(req[r].submission, req[r].quiz)]
  /\ UNCHANGED <<quiz, answers, users, now, max_attempts_peak, call>>

\* the steps of startQuiz requests served in the slots R for the users U
StartSteps(R, U) ==
  \/ \E r \in R, u \in U : StartQuiz(r, u)
  \/ \E r \in R : StartCount(r)
  \/ \E r \in R : StartFind(r)
  \/ \E r \in R : StartCreate(r)

\* the steps of submitQuiz requests with the payloads P
SubmitSteps(R, U, P) ==
  \/ \E r \in R, u \in U, sid \in 1..MaxSubs, payload \in P :
       SubmitQuiz(r, u, sid, payload)
  \/ \E r \in R, evaluation \in EvalResults : SubmitAnswer(r, evaluation)
  \/ \E r \in R : SubmitUpdate(r)
  \/ \E r \in R : SubmitComplete(r)
  \/ \E r \in R : SubmitStats(r)
  \/ \E r \in R, service \in SuggestionServices : SubmitFeedback(r, service)

\* The attempt lifecycle: requests of two users served one after the other,
\* the clock and the owner's updates between their steps; every submit
\* answers the first question
LifecyclePayloads ==
  {p \in Payloads : Len(p) = 1 /\ p[1] = [question_id |-> "q1", answer |-> paris, time_taken |-> 30]}

Next ==
  \/ Tick
  \/ \E u \in Users, ma \in 1..MaxAttemptsArg, active \in BOOLEAN :
       UpdateQuiz(u, ma, active)
  \/ StartSteps({1}, Users)
  \/ SubmitSteps({1}, Users, LifecyclePayloads)
  \/ SubmitExpire(1)

Spec == Init /\ [][Next]_vars

\* Overlapping requests of one user in the slots of Req
NextConcurrent ==
  \/ Tick
  \/ \E ma \in 1..MaxAttemptsArg, active \in BOOLEAN : UpdateQuiz(Owner, ma, active)
  \/ StartSteps(Req, {Owner})
  \/ SubmitSteps(Req, {Owner}, LifecyclePayloads)
  \/ \E r \in Req : SubmitExpire(r)

SpecConcurrent == Init /\ [][NextConcurrent]_vars

\* Grading: every payload and every evaluation, requests of one user served
\* one after the other on a quiz without time limit that allows one attempt
InitGrading ==
  /\ Init
  /\ quiz.time_limit_minutes = Null
  /\ quiz.max_attempts = 1

NextGrading ==
  \/ StartSteps({1}, {Owner})
  \/ SubmitSteps({1}, {Owner}, Payloads)

SpecGrading == InitGrading /\ [][NextGrading]_vars

\* A series of attempts: one user starts, submits and starts again on a quiz
\* without time limit that allows DefaultMaxAttempts attempts
InitAttempts ==
  /\ Init
  /\ quiz.time_limit_minutes = Null
  /\ quiz.max_attempts = DefaultMaxAttempts

NextAttempts ==
  \/ StartQuiz(1, Owner)
  \/ StartCount(1)
  \/ StartFind(1)
  \/ StartCreateUpTo(1, MaxAttemptSeries)
  \/ \E sid \in 1..MaxAttemptSeries, payload \in LifecyclePayloads :
       SubmitQuiz(1, Owner, sid, payload)
  \/ \E evaluation \in EvalResults : SubmitAnswer(1, evaluation)
  \/ SubmitUpdate(1)
  \/ SubmitComplete(1)
  \/ SubmitStats(1)
  \/ \E service \in SuggestionServices : SubmitFeedback(1, service)

SpecAttempts == InitAttempts /\ [][NextAttempts]_vars

\* ------------------------------------------------ helper functions alone
\* the variables of the attempt lifecycle, at rest
lifecycle == <<quiz, submissions, answers, users, now, req, res, max_attempts_peak>>

LifecycleAtRest ==
  /\ quiz = [max_attempts |-> DefaultMaxAttempts, is_active |-> TRUE,
             time_limit_minutes |-> Null]
  /\ submissions = <<>>
  /\ answers = <<>>
  /\ users = [u \in Users |-> NoStats]
  /\ now = 0
  /\ req = [r \in Req |-> IdleReq]
  /\ res = NoResponse
  /\ max_attempts_peak = DefaultMaxAttempts

NoResult == [none |-> TRUE]

\* words and the texts made of them
the == <<"t", "h", "e">>
The == <<"T", "h", "e">>
cat == <<"c", "a", "t">>
sat == <<"s", "a", "t">>

RECURSIVE JoinWords(_, _)
JoinWords(words, sep) ==
  IF Len(words) = 0 THEN <<>>
  ELSE IF Len(words) = 1 THEN words[1]
  ELSE words[1] \o sep \o JoinWords(Tail(words), sep)

WordSeqs(W, n) == UNION {[1..k -> W] : k \in 1..n}

\* answers as the validation passes them on (trimmed, not empty)
GradedAnswers == {JoinWords(ws, <<" ">>) : ws \in WordSeqs({the, The, cat}, MaxAnswerWords)}
\* correct_answer values of questions
ReferenceAnswers == {JoinWords(ws, <<" ">>) : ws \in WordSeqs({the, cat}, MaxReferenceWords)}

QuestionTypes == {"multiple_choice", "true_false", "short_answer", "essay"}

\* the outcomes of the call to the Generation Service
Services ==
  {[kind |-> "unavailable"], [kind |-> "failed"]}
    \cup {[kind |-> "reply", evaluation |-> e] : e \in EvalResults}

InitGradeAnswer ==
  /\ LifecycleAtRest
  /\ call \in [fn : {"gradeAnswer"},
               question : [question_type : QuestionTypes,
                           correct_answer : ReferenceAnswers,
                           points : MinPoints..MaxPoints],
               answer : GradedAnswers,
               service : {[kind |-> "unavailable"]},
               result : {NoResult}]

\* one answer is graded
ApplyGradeAnswer(service) ==
  /\ call.fn = "gradeAnswer"
  /\ call.result = NoResult
  /\ call.question.question_type \in {"multiple_choice", "true_false"}
       => service = [kind |-> "unavailable"]
  /\ call' = [call EXCEPT !.service = service,
                          !.result = GradeAnswer(call.question, call.answer, service)]
  /\ UNCHANGED lifecycle

NextGradeAnswer == \E service \in Services : ApplyGradeAnswer(service)

SpecGradeAnswer == InitGradeAnswer /\ [][NextGradeAnswer]_vars

\* the runs of whitespace that separate the words of a text
Separators == {<<" ">>, <<" ", "\t">>}

InitSimilarity ==
  /\ LifecycleAtRest
  /\ call \in [fn : {"calculateSimilarity"},
               words1 : WordSeqs({the, cat, sat}, MaxSimilarityWords),
               words2 : WordSeqs({the, cat, sat}, MaxSimilarityWords),
               sep : Separators,
               result : {NoResult}]

\* the similarity of the two texts, in both orders
ApplySimilarity ==
  /\ call.fn = "calculateSimilarity"
  /\ call.result = NoResult
  /\ LET text1 == JoinWords(call.words1, call.sep)
         text2 == JoinWords(call.words2, call.sep)
     IN call' = [call EXCEPT !.result =
                   [forward |-> calculateSimilarity(text1, text2),
                    backward |-> calculateSimilarity(text2, text1)]]
  /\ UNCHANGED lifecycle

NextSimilarity == ApplySimilarity

SpecSimilarity == InitSimilarity /\ [][NextSimilarity]_vars

\* ---------------------------------------------------- adaptive difficulty
Difficulties == {"easy", "medium", "hard", "mixed"}
Undefined == "undefined"

\* a score_percentage in arithmetic: null counts as 0
NumberOf(score) == IF score = Null THEN 0 ELSE score

\* Array.prototype.slice(-n)
LastN(s, n) == SubSeq(s, Max2(1, Len(s) - n + 1), Len(s))

\* aiService.calculateTrend: secondAvg - firstAvg, kept as a fraction
calculateTrend(scores) ==
  IF Len(scores) < 2 THEN [num |-> 0, den |-> 1]
  ELSE LET half == Len(scores) \div 2
           firstHalf == SubSeq(scores, 1, half)
           secondHalf == SubSeq(scores, half + 1, Len(scores))
       IN [num |-> SumSeq(secondHalf) * Len(firstHalf)
                     - SumSeq(firstHalf) * Len(secondHalf),
           den |-> Len(firstHalf) * Len(secondHalf)]

\* a recommendation that does not look at the trend
RecommendedDifficulty_IgnoringTrend(averageScore, trend) ==
  IF averageScore.num >= 8500 * averageScore.den THEN "hard"
  ELSE IF averageScore.num >= 7000 * averageScore.den THEN "medium"
  ELSE IF averageScore.num < 6000 * averageScore.den THEN "easy"
  ELSE "mixed"

\* recommendedDifficulty of adaptQuizDifficulty; averageScore is a fraction of
\* hundredths of a percent
RecommendedDifficulty(averageScore, trend) ==
  IF averageScore.num >= 8500 * averageScore.den /\ trend.num >= 0 THEN "hard"
  ELSE IF averageScore.num >= 7000 * averageScore.den THEN "medium"
  ELSE IF averageScore.num < 6000 * averageScore.den THEN "easy"
  ELSE "mixed"

getDifficultyReasoning(averageScore, trend) ==
  IF averageScore.num >= 8500 * averageScore.den /\ trend.num >= 0
    THEN "You're doing great! Ready for more challenging questions."
  ELSE IF averageScore.num >= 7000 * averageScore.den
    THEN "Good progress! Continuing with moderate difficulty."
  ELSE IF averageScore.num < 6000 * averageScore.den
    THEN "Let's focus on building confidence with easier questions."
  ELSE "Mixed difficulty to help you improve gradually."

\* aiService.adaptQuizDifficulty: the string 'mixed' for an empty history,
\* else an object computed from the last WindowSize entries
adaptQuizDifficulty(userHistory) ==
  IF Len(userHistory) = 0 THEN [type |-> "string", value |-> "mixed"]
  ELSE LET recentQuizzes == LastN(userHistory, WindowSize)
           scores == [k \in 1..Len(recentQuizzes) |->
                        NumberOf(recentQuizzes[k].score_percentage)]
           averageScore == [num |-> SumSeq(scores), den |-> Len(scores)]
           trend == calculateTrend(scores)
       IN [type |-> "object",
           difficulty |-> RecommendedDifficulty(averageScore, trend),
           reasoning |-> getDifficultyReasoning(averageScore, trend),
           averageScore |-> RoundDiv(averageScore.num, averageScore.den),
           trend |-> IF trend.num > 0 THEN "improving"
                     ELSE IF trend.num < 0 THEN "declining" ELSE "stable"]

\* generateQuiz without a difficulty_level or with 'adaptive': finalDifficulty
\* is the difficulty property of the analysis; Quiz.create stores the default
\* for an undefined difficulty_level
AdaptiveDifficulty(userHistory) ==
  LET difficultyAnalysis == adaptQuizDifficulty(userHistory)
      finalDifficulty == IF difficultyAnalysis.type = "object"
                           THEN difficultyAnalysis.difficulty ELSE Undefined
  IN [difficultyAnalysis |-> difficultyAnalysis,
      finalDifficulty |-> finalDifficulty,
      difficulty_level |-> IF finalDifficulty = Undefined THEN "mixed"
                           ELSE finalDifficulty]

\* histories as generateQuiz passes them: most recent first
ScoreSamples == {5000, 6500, 7000, 8500, 10000}
HistoryEntries == [score_percentage : ScoreSamples, difficulty : {"medium"}]
ExampleHistory ==
  [k \in 1..5 |-> [score_percentage |-> 3500 + 500 * k, difficulty |-> "medium"]]
Histories ==
  {ExampleHistory} \cup UNION {[1..n -> HistoryEntries] : n \in 0..MaxHistory}

InitDifficulty ==
  /\ LifecycleAtRest
  /\ call \in [fn : {"adaptQuizDifficulty"}, userHistory : Histories,
               result : {NoResult}]

ApplyAdaptiveDifficulty ==
  /\ call.fn = "adaptQuizDifficulty"
  /\ call.result = NoResult
  /\ call' = [call EXCEPT !.result = AdaptiveDifficulty(call.userHistory)]
  /\ UNCHANGED lifecycle

NextDifficulty == ApplyAdaptiveDifficulty

SpecDifficulty == InitDifficulty /\ [][NextDifficulty]_vars

\* subject and difficulty_level of the quiz (no handler of the model writes them)
QuizSubject == "math"
QuizDifficulty == "medium"
Subjects == {QuizSubject, "science"}

\* ORDER BY completed_at DESC; a null completed_at sorts first or last,
\* depending on the dialect
CompletedAtKey(i, nullsFirst) ==
  IF submissions[i].completed_at = Null
    THEN (IF nullsFirst THEN MaxTime + 1 ELSE -1)
    ELSE submissions[i].completed_at

\* Submission.findAll({user_id, quiz.subject}, order completed_at DESC,
\* limit 10): the id sequences the query can return (no filter on status)
UserHistoryIds(u, subject, nullsFirst) ==
  LET ids == IF subject = QuizSubject
               THEN {i \in 1..Len(submissions) : submissions[i].user_id = u}
               ELSE {}
      n == Cardinality(ids)
      sorted == {h \in [1..n -> ids] :
                   /\ \A a, b \in 1..n : a # b => h[a] # h[b]
                   /\ \A a, b \in 1..n :
                        a < b => CompletedAtKey(h[a], nullsFirst)
                                   >= CompletedAtKey(h[b], nullsFirst)}
  IN {SubSeq(h, 1, IF n < HistoryLimit THEN n ELSE HistoryLimit) : h \in sorted}

\* generateQuiz: the history query, the choice of the difficulty and the quiz
\* created with it (kept in call)
GenerateQuiz(u, subject, difficulty_level, nullsFirst) ==
  /\ \A r \in Req : req[r].pc = "idle"
  /\ \E ids \in UserHistoryIds(u, subject, nullsFirst) :
       LET userHistory == [k \in 1..Len(ids) |-> submissions[ids[k]]]
           entries == [k \in 1..Len(ids) |->
                         [score_percentage |-> userHistory[k].score_percentage,
                          difficulty |-> QuizDifficulty]]
           adaptive == difficulty_level \in {Undefined, "adaptive"}
           chosen == IF adaptive THEN AdaptiveDifficulty(entries)
                     ELSE [difficultyAnalysis |-> NoResult,
                           finalDifficulty |-> difficulty_level,
                           difficulty_level |-> difficulty_level]
       IN call' = [fn |-> "generateQuiz", user |-> u, subject |-> subject,
                   userHistory |-> userHistory, result |-> chosen]
  /\ UNCHANGED lifecycle

\* attempts of the owner and quiz generation requests between them
NextHistory ==
  \/ Tick
  \/ StartSteps({1}, {Owner})
  \/ SubmitSteps({1}, {Owner}, LifecyclePayloads)
  \/ SubmitExpire(1)
  \/ \E subject \in Subjects, difficulty_level \in {Undefined, "adaptive", "hard"},
        nullsFirst \in BOOLEAN :
       GenerateQuiz(Owner, subject, difficulty_level, nullsFirst)

SpecHistory == Init /\ [][NextHistory]_vars

\* ------------------------------------------------- generateSampleQuestions
MinTotalQuestions == 1
MaxTotalQuestions == 50
SampleCap == 10

\* the built-in samples of a subject (sampleQuestions[subject] || mathematics)
SampleSubjects == {"mathematics", "science", "english"}

SampleQuestions(subject) ==
  IF subject = "science"
    THEN <<"What is the chemical symbol for water?",
           "Which planet is closest to the Sun?">>
    ELSE <<"What is 15 + 27?",
           "If a rectangle has length 8 cm and width 5 cm, what is its area?",
           "What is the value of x in the equation 2x + 6 = 14?">>

Min2(a, b) == IF a <= b THEN a ELSE b

\* aiService.generateSampleQuestions: the loop index i runs from 0
generateSampleQuestions(subject, numQuestions) ==
  LET subjectQuestions == SampleQuestions(subject)
  IN [k \in 1..Min2(numQuestions, SampleCap) |->
        [question_text |->
           subjectQuestions[((k - 1) % Len(subjectQuestions)) + 1],
         question_type |-> "multiple_choice",
         points |-> 1,
         question_order |-> k]]

InitSamples ==
  /\ LifecycleAtRest
  /\ call \in [fn : {"generateSampleQuestions"},
               subject : SampleSubjects,
               numQuestions : MinTotalQuestions..MaxTotalQuestions,
               result : {NoResult}]

ApplySampleQuestions ==
  /\ call.fn = "generateSampleQuestions"
  /\ call.result = NoResult
  /\ call' = [call EXCEPT !.result =
                [questions |->
                   generateSampleQuestions(call.subject, call.numQuestions)]]
  /\ UNCHANGED lifecycle

NextSamples == ApplySampleQuestions

SpecSamples == InitSamples /\ [][NextSamples]_vars

\* --------------------------------------------------- getPerformanceSummary
MaxCompleted == 6
RecentLimit == 5
TrendThreshold == 500      \* 5 points, in hundredths

\* score_percentage of the completed submissions that Submission.findAll
\* returns, ordered by completed_at DESC (the most recent first)
SummaryScores == {4000, 5000, 10000}
CompletedScores == UNION {[1..n -> SummaryScores] : n \in 0..MaxCompleted}

\* Array.prototype.slice(0, n)
FirstN(s, n) == SubSeq(s, 1, Min2(n, Len(s)))

\* SubmissionController.calculateTrend: firstAvg - secondAvg, a fraction;
\* firstHalf = scores.slice(floor(n / 2)), secondHalf = scores.slice(0, floor(n / 2))
SubmissionController_calculateTrend(scores) ==
  IF Len(scores) < 2 THEN [num |-> 0, den |-> 1]
  ELSE LET half == Len(scores) \div 2
           firstHalf == SubSeq(scores, half + 1, Len(scores))
           secondHalf == SubSeq(scores, 1, half)
       IN [num |-> SumSeq(firstHalf) * Len(secondHalf)
                     - SumSeq(secondHalf) * Len(firstHalf),
           den |-> Len(firstHalf) * Len(secondHalf)]

\* improvement_trend and the trend it is derived from
getPerformanceSummary(scores) ==
  IF Len(scores) = 0
    THEN [trend |-> [num |-> 0, den |-> 1], improvement_trend |-> "no_data"]
    ELSE LET trend == SubmissionController_calculateTrend(FirstN(scores, RecentLimit))
         IN [trend |-> trend,
             improvement_trend |->
               IF trend.num > TrendThreshold * trend.den THEN "improving"
               ELSE IF trend.num < -TrendThreshold * trend.den THEN "declining"
               ELSE "stable"]

InitSummary ==
  /\ LifecycleAtRest
  /\ call \in [fn : {"getPerformanceSummary"}, scores : CompletedScores,
               result : {NoResult}]

ApplyPerformanceSummary ==
  /\ call.fn = "getPerformanceSummary"
  /\ call.result = NoResult
  /\ call' = [call EXCEPT !.result = getPerformanceSummary(call.scores)]
  /\ UNCHANGED lifecycle

NextSummary == ApplyPerformanceSummary

SpecSummary == InitSummary /\ [][NextSummary]_vars

\* --------------------------------------------------------- rateLimitByUser
MaxRateTime == 3
MaxRateWindow == 2
MaxRateRequests == 2

\* a limit test that lets one request more through
RateLimitExceeded_OffByOne(userHistory, maxRequests) ==
  Len(userHistory) > maxRequests

\* userHistory.length >= maxRequests
RateLimitExceeded(userHistory, maxRequests) ==
  Len(userHistory) >= maxRequests

\* userHistory.filter(timestamp => timestamp > windowStart)
RECURSIVE FilterAfter(_, _)
FilterAfter(userHistory, windowStart) ==
  IF userHistory = <<>> THEN <<>>
  ELSE IF Head(userHistory) > windowStart
         THEN <<Head(userHistory)>> \o FilterAfter(Tail(userHistory), windowStart)
         ELSE FilterAfter(Tail(userHistory), windowStart)

\* one limiter rateLimitByUser(maxRequests, windowMs): its Map userRequests
\* is empty; passed records the times of the requests handed to next()
InitRateLimit ==
  /\ LifecycleAtRest
  /\ call \in [fn : {"rateLimitByUser"},
               maxRequests : 1..MaxRateRequests,
               windowMs : 1..MaxRateWindow,
               userRequests : {[u \in Users |-> <<>>]},
               passed : {[u \in Users |-> <<>>]},
               last : {[user |-> "none", code |-> 0]}]

\* Date.now() advances between two requests
RateTick ==
  /\ call.fn = "rateLimitByUser"
  /\ now < MaxRateTime
  /\ now' = now + 1
  /\ UNCHANGED <<quiz, submissions, answers, users, req, res, max_attempts_peak, call>>

\* the middleware serves a request of the authenticated user u
RateLimitRequest(u) ==
  /\ call.fn = "rateLimitByUser"
  /\ LET windowStart == now - call.windowMs
         userHistory == FilterAfter(call.userRequests[u], windowStart)
     IN IF RateLimitExceeded(userHistory, call.maxRequests)
          THEN call' = [call EXCEPT !.last = [user |-> u, code |-> 429]]
          ELSE call' = [call EXCEPT
                          !.userRequests[u] = Append(userHistory, now),
                          !.passed[u] = Append(@, now),
                          !.last = [user |-> u, code |-> 200]]
  /\ UNCHANGED lifecycle

NextRateLimit ==
  \/ RateTick
  \/ \E u \in Users : RateLimitRequest(u)

SpecRateLimit == InitRateLimit /\ [][NextRateLimit]_vars

\* Two submit requests of the owner that overlap on one attempt of a quiz
\* without time limit: each payload answers one of the two questions
RacePayloads ==
  {p \in Payloads :
     /\ Len(p) = 1
     /\ p[1].question_id \in QuestionIds
     /\ p[1].answer = paris
     /\ p[1].time_taken = 30}

NextRace ==
  \/ StartSteps({1}, {Owner})
  \/ SubmitSteps(Req, {Owner}, RacePayloads)

SpecRace == InitGrading /\ [][NextRace]_vars

\* Submit requests of the owner that overlap on two attempts of a quiz
\* without time limit
InitOverlap ==
  /\ Init
  /\ quiz.time_limit_minutes = Null
  /\ quiz.max_attempts = MaxSubs

NextOverlap ==
  \/ StartSteps({1}, {Owner})
  \/ SubmitSteps(Req, {Owner}, LifecyclePayloads)

SpecOverlap == InitOverlap /\ [][NextOverlap]_vars

\* ------------------------------------------- Submission model validation
\* the attributes Submission declares allowNull: false
SubmissionNotNull ==
  {"user_id", "attempt_number", "total_questions", "score_percentage",
   "total_points_possible", "started_at"}

\* the attributes Submission declares with a defaultValue
SubmissionDefaults ==
  {"attempt_number", "correct_answers", "total_points_earned", "started_at",
   "status", "improvement_suggestions"}

\* the attributes startQuiz passes to Submission.create
StartQuizValues(u, n) ==
  [user_id |-> u,
   attempt_number |-> n,
   total_questions |-> Cardinality(QuestionIds),
   total_points_possible |-> SumSeq([k \in 1..2 |-> Questions[IF k = 1 THEN "q1" ELSE "q2"].points]),
   status |-> "in_progress"]

\* the notNull violations of a Submission built from values: the allowNull:
\* false attributes that get no value and have no default
NotNullViolations(values) ==
  {a \in SubmissionNotNull : a \notin DOMAIN values /\ a \notin SubmissionDefaults}

\* ------------------------------------------------------------------ claims
SubmissionIds == 1..Len(submissions)

SubmissionIdsOf(u) == {i \in SubmissionIds : submissions[i].user_id = u}

\* C1: in every reachable state, overlapping start and submit requests of the
\* same user included, a user holds at most one in_progress submission of
\* the quiz.
C1_AtMostOneInProgress ==
  \A u \in Users : Cardinality(InProgressIds(u)) <= 1

\* two starts overlapped: the second insert was rejected by the unique index
\* (no attempt has expired) and the attempt of the first is open
C1_Witness ==
  /\ res.error = "Failed to start quiz"
  /\ Cardinality(InProgressIds(Owner)) = 1
  /\ \A i \in SubmissionIds : submissions[i].status # "expired"

C3_AttemptNumbers ==
  \A u \in Users :
    /\ \A i, j \in SubmissionIdsOf(u) :
         i < j => submissions[i].attempt_number < submissions[j].attempt_number
    /\ \A i \in SubmissionIdsOf(u) :
         (\A j \in SubmissionIdsOf(u) : i <= j) => submissions[i].attempt_number = 1

\* a user has a second attempt, numbered 2, after a completed first one
C3_Witness ==
  \E i, j \in SubmissionIdsOf(Owner) :
    /\ i < j
    /\ submissions[i].status = "completed"
    /\ submissions[i].attempt_number = 1
    /\ submissions[j].attempt_number = 2

\* the user may start: the quiz is active, the count is below max_attempts
\* and no attempt is open
Eligible(u) ==
  /\ quiz.is_active
  /\ CountAttempts(u) < quiz.max_attempts
  /\ InProgressIds(u) = {}

\* C4 as stated: a start by an eligible user creates an in_progress
\* submission numbered count + 1; it does not fail.
C4_Original ==
  [][\A r \in Req :
       (req[r].pc = "start_create" /\ req'[r].pc = "idle" /\ Eligible(req[r].user))
       => /\ Len(submissions') = Len(submissions) + 1
          /\ submissions'[Len(submissions')].user_id = req[r].user
          /\ submissions'[Len(submissions')].status = "in_progress"
          /\ submissions'[Len(submissions')].attempt_number = CountAttempts(req[r].user) + 1]_vars

\* C5 as stated: a start by a user who has an open attempt of the quiz it
\* read as active returns that attempt's id and changes nothing, whatever
\* max_attempts is.
C5_Original ==
  [][\A r \in Req :
       (/\ req[r].pc \in {"start_count", "start_find"}
        /\ req'[r].pc = "idle"
        /\ InProgressIds(req[r].user) # {})
       => /\ res'.code = 200
          /\ res'.submission_id \in InProgressIds(req[r].user)
          /\ submissions' = submissions]_vars

\* the score attributes of a submission
ScoreFields(s) ==
  <<s.correct_answers, s.total_points_earned, s.score_percentage,
    s.completed_at, s.time_taken_minutes>>

\* C6: a submit of an in_progress submission is sent to expiry exactly when
\* the quiz has a time limit and the elapsed minutes exceed it; the expiry
\* sets the status to expired, answers TIME_LIMIT_EXCEEDED, creates no Answer
\* and writes no score attribute and no user statistics; a submission is set
\* to expired by nothing else.
C6_Expiry ==
  [][/\ \A r \in Req :
          /\ (req[r].pc = "idle" /\ req'[r].pc \in {"submit_expire", "submit_grade"})
             => LET s == submissions[req'[r].submission_id]
                IN (req'[r].pc = "submit_expire")
                   <=> (/\ quiz.time_limit_minutes # Null
                        /\ now - s.started_at > quiz.time_limit_minutes)
          /\ (req[r].pc = "submit_expire" /\ req'[r].pc = "idle")
             => /\ submissions'[req[r].submission_id].status = "expired"
                /\ res'.error = "TIME_LIMIT_EXCEEDED"
                /\ answers' = answers
                /\ users' = users
                /\ \A i \in SubmissionIds :
                     /\ ScoreFields(submissions'[i]) = ScoreFields(submissions[i])
                     /\ i # req[r].submission_id => submissions'[i] = submissions[i]
     /\ \A i \in SubmissionIds :
          (submissions[i].status # "expired" /\ submissions'[i].status = "expired")
          => \E r \in Req :
               /\ req[r].pc = "submit_expire"
               /\ req[r].submission_id = i
               /\ req[r].quiz.time_limit_minutes # Null
               /\ now - submissions[i].started_at > req[r].quiz.time_limit_minutes]_vars

\* a submit after the limit was answered TIME_LIMIT_EXCEEDED: the attempt is
\* expired, has no Answer and no score, its user's statistics are untouched
C6_Witness ==
  /\ res.error = "TIME_LIMIT_EXCEEDED"
  /\ \E i \in SubmissionIds :
       /\ submissions[i].status = "expired"
       /\ submissions[i].score_percentage = Null
       /\ \A k \in 1..Len(answers) : answers[k].submission_id # i
       /\ users[submissions[i].user_id].total_quizzes_attempted = 0

\* C7: a submit goes on to grading or expiry only for an in_progress
\* submission of its caller; one answered SUBMISSION_NOT_FOUND or
\* QUIZ_NOT_IN_PROGRESS changes no submission, answer or user; a completed or
\* expired submission is changed by no later request (only by the request
\* completing it), and no Answer is added to it or changed.
C7_RejectedSubmit ==
  [][/\ \A r \in Req :
          (req[r].pc = "idle" /\ req'[r].pc \in {"submit_expire", "submit_grade"})
          => /\ req'[r].submission_id \in SubmissionIds
             /\ submissions[req'[r].submission_id].user_id = req'[r].user
             /\ submissions[req'[r].submission_id].status = "in_progress"
     /\ (res' # res /\ res'.error \in {"SUBMISSION_NOT_FOUND", "QUIZ_NOT_IN_PROGRESS"})
        => (submissions' = submissions /\ answers' = answers /\ users' = users)
     /\ \A i \in SubmissionIds :
          (submissions[i].status \in {"completed", "expired"}
           /\ submissions'[i] # submissions[i])
          => \E r \in Req : /\ req[r].pc \in {"submit_complete", "submit_feedback"}
                              /\ req[r].submission_id = i
     /\ \A k \in 1..Len(answers) : answers'[k] = answers[k]
     /\ Len(answers') > Len(answers)
        => submissions[answers'[Len(answers')].submission_id].status = "in_progress"]_vars

\* a submit of a completed submission was answered QUIZ_NOT_IN_PROGRESS
C7_Witness ==
  /\ res.error = "QUIZ_NOT_IN_PROGRESS"
  /\ \E i \in SubmissionIds :
       /\ submissions[i].status = "completed"
       /\ submissions[i].score_percentage # Null
       /\ \A j \in SubmissionIds : j # i => submissions[j].status = "in_progress"

\* a request is working on submission i
InFlight(i) == \E r \in Req : req[r].pc # "idle" /\ req[r].submission_id = i

\* C8 as stated: once the request that completed it has returned, a completed
\* submission has score_percentage = round(earned / possible * 100, 2) (0 when
\* possible is 0) within 0..100.
C8_Original ==
  \A i \in SubmissionIds :
    (submissions[i].status = "completed" /\ ~InFlight(i))
    => /\ submissions[i].score_percentage =
            (IF submissions[i].total_points_possible = 0 THEN 0
             ELSE RoundDiv(submissions[i].total_points_earned * 10000,
                           submissions[i].total_points_possible))
       /\ 0 <= submissions[i].score_percentage
       /\ submissions[i].score_percentage <= 10000

\* the stored Answer rows of submission i
AnswersOf(i) == {k \in 1..Len(answers) : answers[k].submission_id = i}

\* C9 as stated: for every completed submission correct_answers is the number
\* of its stored Answers with is_correct and total_points_earned the sum of
\* their points_earned.
C9_Original ==
  \A i \in SubmissionIds :
    submissions[i].status = "completed"
    => /\ submissions[i].correct_answers =
            Cardinality({k \in AnswersOf(i) : answers[k].is_correct})
       /\ submissions[i].total_points_earned =
            SumSeq([k \in 1..Len(answers) |->
                      IF k \in AnswersOf(i) THEN answers[k].points_earned ELSE 0])

\* at most one Answer per (submission, question), none for a foreign question
AnswersWellFormed ==
  /\ \A k1, k2 \in 1..Len(answers) :
       (/\ answers[k1].submission_id = answers[k2].submission_id
        /\ answers[k1].question_id = answers[k2].question_id) => k1 = k2
  /\ \A k \in 1..Len(answers) : answers[k].question_id \in QuestionIds

\* C10: there is at most one Answer per (submission, question) and none for a
\* question id outside the quiz; a submit that completes a submission has
\* graded each question of the quiz named in its payload once, and the
\* submission holds exactly one Answer, with that result, for each of them.
C10_OneAnswerPerQuestion ==
  [][/\ AnswersWellFormed'
     /\ \A r \in Req :
          (req[r].pc = "submit_grade" /\ req'[r].pc = "submit_complete")
          => LET sid == req[r].submission_id
                 asked == {req[r].answers[i].question_id : i \in 1..Len(req[r].answers)}
                            \cap QuestionIds
                 results == req[r].answerResults
             IN /\ Len(results) = Cardinality(asked)
                /\ \A q \in asked :
                     /\ Cardinality({k \in AnswersOf(sid) : answers[k].question_id = q}) = 1
                     /\ \E n \in 1..Len(results) :
                          /\ results[n].question_id = q
                          /\ \E k \in AnswersOf(sid) :
                               /\ answers[k].question_id = q
                               /\ answers[k].is_correct = results[n].is_correct
                               /\ answers[k].points_earned = results[n].points_earned]_vars

\* a submit naming a foreign question id and a question of the quiz has
\* completed its submission with one Answer
C10_Witness ==
  \E r \in Req :
    /\ req[r].pc = "submit_complete"
    /\ \E i \in 1..Len(req[r].answers) : req[r].answers[i].question_id = ForeignQuestionId
    /\ Len(req[r].answerResults) = 1
    /\ Cardinality(AnswersOf(req[r].submission_id)) = 1

\* a call of the grading step that has returned
Graded == call.fn = "gradeAnswer" /\ call.result # NoResult

\* C11: for a multiple_choice or true_false question is_correct holds exactly
\* when the answer equals correct_answer up to the case of its letters, and
\* points_earned is question.points when is_correct and 0 otherwise.
C11_ObjectiveGrading ==
  (Graded /\ call.question.question_type \in {"multiple_choice", "true_false"})
  => /\ call.result.is_correct
        <=> (/\ Len(call.answer) = Len(call.question.correct_answer)
             /\ \A i \in 1..Len(call.answer) :
                  LowerChar(call.answer[i]) = LowerChar(call.question.correct_answer[i]))
     /\ call.result.points_earned =
          (IF call.result.is_correct THEN call.question.points ELSE 0)

\* an objective answer that differs from correct_answer only in case got the
\* full points of a 10 point question
C11_Witness ==
  /\ Graded
  /\ call.question.question_type = "true_false"
  /\ call.answer # call.question.correct_answer
  /\ call.result.is_correct
  /\ call.result.points_earned = MaxPoints
  /\ call.question.points = MaxPoints

\* C12 as stated: an open answer graded while the service is unavailable or
\* failing gets is_correct = (similarity > 0.7) and points_earned =
\* question.points if is_correct, else round(question.points * similarity).
C12_Original ==
  (/\ Graded
   /\ call.question.question_type \in {"short_answer", "essay"}
   /\ call.service.kind \in {"unavailable", "failed"})
  => LET similarity == calculateSimilarity(ToLowerCase(call.answer),
                                           ToLowerCase(call.question.correct_answer))
         is_correct == 10 * similarity.num > 7 * similarity.den
     IN /\ call.result.is_correct = is_correct
        /\ call.result.points_earned =
             (IF is_correct THEN call.question.points
              ELSE RoundDiv(call.question.points * similarity.num, similarity.den))

\* the word occurrences of a that appear at least once in b
Occurrences(a, b) ==
  Cardinality({i \in 1..Len(a) : \E j \in 1..Len(b) : b[j] = a[i]})

\* C13: for texts of whitespace-separated words similarity(a, b) is the number
\* of word occurrences of a that appear in b over the larger of the two word
\* counts, it lies in [0, 1], similarity("x x", "x") = 1 while
\* similarity("x", "x x") = 1/2, and similarity("the cat sat", "the cat") = 2/3.
C13_Similarity ==
  (call.fn = "calculateSimilarity" /\ call.result # NoResult)
  => LET a == call.words1
         b == call.words2
         r == call.result.forward
         back == call.result.backward
     IN /\ r.den = Max2(Len(a), Len(b))
        /\ r.num = Occurrences(a, b)
        /\ back.den = r.den
        /\ back.num = Occurrences(b, a)
        /\ 0 <= r.num /\ r.num <= r.den /\ r.den > 0
        /\ (a = <<the, the>> /\ b = <<the>>)
             => (r.num = r.den /\ 2 * back.num = back.den)
        /\ (a = <<the, cat, sat>> /\ b = <<the, cat>>) => 3 * r.num = 2 * r.den

\* similarity("the cat sat", "the cat") was computed for texts whose words
\* are separated by more than one whitespace character
C13_Witness ==
  /\ call.fn = "calculateSimilarity"
  /\ call.result # NoResult
  /\ call.words1 = <<the, cat, sat>>
  /\ call.words2 = <<the, cat>>
  /\ Len(call.sep) > 1
  /\ call.result.forward = [num |-> 2, den |-> 3]

\* C14 as stated: a submission completed by submitQuiz ends with exactly 2
\* improvement suggestions, the 2 fixed ones when no answer is incorrect.
C14_Original ==
  \A i \in SubmissionIds :
    (/\ submissions[i].status = "completed"
     /\ submissions[i].score_percentage # Null
     /\ ~InFlight(i))
    => Len(submissions[i].improvement_suggestions) = 2

\* the completed submissions of u whose request is past the statistics update
Accounted(u) ==
  {i \in SubmissionIds :
     /\ submissions[i].user_id = u
     /\ submissions[i].status = "completed"
     /\ ~\E r \in Req : /\ req[r].submission_id = i
                        /\ req[r].pc \in {"submit_complete", "submit_stats"}}

\* total_quizzes_attempted of u beyond the completed submissions accounted for
StatsBalance(u) == users[u].total_quizzes_attempted - Cardinality(Accounted(u))

\* the statistics of a user change only in the statistics step of a submit of
\* that user, to the weighted average with the count before the increment
StatsFormula ==
  \A u \in Users :
    users'[u] # users[u]
    => \E r \in Req :
         /\ req[r].pc = "submit_stats"
         /\ req[r].user = u
         /\ submissions[req[r].submission_id].status = "completed"
         /\ users'[u].total_quizzes_attempted = users[u].total_quizzes_attempted + 1
         /\ users'[u].average_score =
              RoundDiv(users[u].average_score * users[u].total_quizzes_attempted
                         + submissions[req[r].submission_id].score_percentage,
                       users[u].total_quizzes_attempted + 1)

\* C15 as stated: each completed submission updates its user's statistics
\* exactly once, with average_score' = round((average_score * count +
\* newScore) / (count + 1), 2) and count' = count + 1; expired or rejected
\* submits leave both fields unchanged.
C15_Original ==
  [][/\ StatsFormula
     /\ \A u \in Users : StatsBalance(u)' = StatsBalance(u)]_vars

\* the adaptive path has chosen a difficulty for a history
Adapted == call.fn = "adaptQuizDifficulty" /\ call.result # NoResult

\* the scores of the entries of a history
ScoresOf(h) == [k \in 1..Len(h) |-> h[k].score_percentage]

\* C16 as stated: for every history the recommendation is a record with a
\* difficulty in {easy, medium, hard, mixed}; for the empty history that
\* difficulty is mixed and the quiz is generated with difficulty mixed.
C16_Original ==
  Adapted
  => /\ call.result.difficultyAnalysis.type = "object"
     /\ call.result.difficultyAnalysis.difficulty \in Difficulties
     /\ Len(call.userHistory) = 0
          => /\ call.result.difficultyAnalysis.difficulty = "mixed"
             /\ call.result.finalDifficulty = "mixed"

\* C17: for a non-empty history the difficulty follows the ordered table on
\* the mean and the trend of the window (hard for mean >= 85 and trend >= 0,
\* else medium for mean >= 70, else easy for mean < 60, else mixed), the
\* reasoning is the sentence of the same branch, and the window 40, 45, 50,
\* 55, 60 gives easy.
C17_DecisionTable ==
  (Adapted /\ Len(call.userHistory) > 0)
  => LET window == ScoresOf(LastN(call.userHistory, WindowSize))
         n == Len(window)
         total == SumSeq(window)
         trend == calculateTrend(window)
         branch == IF total >= 8500 * n /\ trend.num >= 0 THEN 1
                   ELSE IF total >= 7000 * n THEN 2
                   ELSE IF total < 6000 * n THEN 3
                   ELSE 4
         analysis == call.result.difficultyAnalysis
     IN /\ analysis.difficulty = <<"hard", "medium", "easy", "mixed">>[branch]
        /\ analysis.reasoning =
             <<"You're doing great! Ready for more challenging questions.",
               "Good progress! Continuing with moderate difficulty.",
               "Let's focus on building confidence with easier questions.",
               "Mixed difficulty to help you improve gradually.">>[branch]
        /\ call.result.finalDifficulty = analysis.difficulty
        /\ call.userHistory = ExampleHistory => analysis.difficulty = "easy"

\* a window with mean at least 85 whose trend is negative was recommended
\* medium with the sentence of that branch
C17_Witness ==
  /\ Adapted
  /\ Len(call.userHistory) = 2
  /\ SumSeq(ScoresOf(call.userHistory)) >= 8500 * 2
  /\ calculateTrend(ScoresOf(call.userHistory)).num < 0
  /\ call.result.difficultyAnalysis.difficulty = "medium"
  /\ call.result.difficultyAnalysis.reasoning =
       "Good progress! Continuing with moderate difficulty."

\* C18 as stated: for a history of more than 5 entries, most recent first, the
\* scores averaged are those of the 5 most recent entries.
C18_Original ==
  (Adapted /\ Len(call.userHistory) > WindowSize)
  => call.result.difficultyAnalysis.averageScore =
       RoundDiv(SumSeq(ScoresOf(SubSeq(call.userHistory, 1, WindowSize))), WindowSize)

\* C19 as stated: the trend of the window is reported improving exactly when
\* the mean of its more recent half is higher than the mean of its older half,
\* and declining exactly when it is lower.
C19_Original ==
  (Adapted /\ Len(call.userHistory) >= 2 /\ Len(call.userHistory) <= WindowSize)
  => LET window == ScoresOf(call.userHistory)
         half == Len(window) \div 2
         recent == SubSeq(window, 1, half)
         older == SubSeq(window, half + 1, Len(window))
         gain == SumSeq(recent) * Len(older) - SumSeq(older) * Len(recent)
     IN /\ call.result.difficultyAnalysis.trend = "improving" <=> gain > 0
        /\ call.result.difficultyAnalysis.trend = "declining" <=> gain < 0

\* C20 as stated: the history generateQuiz passes to the estimator holds only
\* completed submissions; in_progress, expired and abandoned ones never
\* contribute a score.
C20_Original ==
  call.fn = "generateQuiz"
  => \A k \in 1..Len(call.userHistory) : call.userHistory[k].status = "completed"

C22_Original ==
  (call.fn = "generateSampleQuestions" /\ call.result # NoResult)
  => LET qs == call.result.questions
         samples == SampleQuestions(call.subject)
     IN /\ Len(qs) = call.numQuestions
        /\ \A k \in 1..Len(qs) :
             /\ qs[k].question_order = k
             /\ qs[k].question_text = samples[((k - 1) % Len(samples)) + 1]

\* the entries of a payload that the grading loop grades
IsGradedEntry(entry) == entry.question_id \in QuestionIds

\* C23: the performance_analysis written when a submission with at least
\* one graded answer is completed has
\* average_time_per_question = the sum of the submitted time_taken of the
\* graded answers (absent counted as 0) over the number of graded answers,
\* strengths = the question ids graded correct and weaknesses = those graded
\* incorrect.
C23_Original ==
  [][\A r \in Req :
       (/\ req[r].pc = "submit_feedback" /\ req'[r].pc = "idle"
        /\ Len(req[r].answerResults) > 0)
       => LET sid == req[r].submission_id
              analysis == submissions'[sid].performance_analysis
              graded == SelectSeq(req[r].answers, IsGradedEntry)
              total == SumSeq([n \in 1..Len(graded) |->
                                 IF graded[n].time_taken = Null
                                   THEN 0 ELSE graded[n].time_taken])
              results == req[r].answerResults
          IN /\ analysis # NoAnalysis
             /\ analysis.average_time_per_question.num * Len(graded) =
                  total * analysis.average_time_per_question.den
             /\ analysis.strengths =
                  QuestionIdsOf(SelectSeq(results, IsCorrectResult))
             /\ analysis.weaknesses =
                  QuestionIdsOf(SelectSeq(results, IsIncorrectResult))]_vars

\* C24: over the up to 5 most recent completed submissions, improvement_trend
\* is 'improving' exactly when the mean of the more recent scores exceeds the
\* mean of the older ones by more than 5 points, 'declining' exactly when it
\* is lower by more than 5 points and 'stable' otherwise; the trend of fewer
\* than 2 scores is 0.
C24_Original ==
  (call.fn = "getPerformanceSummary" /\ call.result # NoResult /\ Len(call.scores) > 0)
  => LET window == FirstN(call.scores, RecentLimit)
         half == Len(window) \div 2
         recent == SubSeq(window, 1, half)
         older == SubSeq(window, half + 1, Len(window))
         \* (mean(recent) - mean(older)) * Len(recent) * Len(older)
         gain == SumSeq(recent) * Len(older) - SumSeq(older) * Len(recent)
         scale == Len(recent) * Len(older)
         r == call.result
     IN IF Len(window) < 2
          THEN r.trend.num = 0 /\ r.improvement_trend = "stable"
          ELSE /\ (r.improvement_trend = "improving") <=> (gain > TrendThreshold * scale)
               /\ (r.improvement_trend = "declining") <=> (gain < -TrendThreshold * scale)
               /\ r.improvement_trend \in {"improving", "declining", "stable"}

\* the requests of user u handed to the handler in the window that ends at t
PassedInWindow(u, t) ==
  Cardinality({k \in 1..Len(call.passed[u]) :
                 call.passed[u][k] > t - call.windowMs /\ call.passed[u][k] <= t})

\* C25 (state part): in every window of length windowMs at most maxRequests
\* requests of a user are passed on to the handler, and the history kept for
\* a user holds no more than maxRequests timestamps.
C25_WindowLimit ==
  call.fn = "rateLimitByUser"
  => \A u \in Users :
       /\ \A t \in 0..(MaxRateTime + MaxRateWindow) :
            PassedInWindow(u, t) <= call.maxRequests
       /\ Len(call.userRequests[u]) <= call.maxRequests

\* C25: a user's request is passed on exactly when fewer than maxRequests of
\* that user's requests were passed on in the window that ends now, so at
\* most maxRequests are passed in any window; a request answered 429 leaves
\* the history as it is; after a check the user's history holds no timestamp
\* older than the window; a request changes no other user's history.
C25_RateLimit ==
  [][(call.fn = "rateLimitByUser" /\ call' # call)
     => LET u == call'.last.user
        IN /\ (call'.last.code = 200) <=> (PassedInWindow(u, now) < call.maxRequests)
           /\ call'.last.code \in {200, 429}
           /\ call'.last.code = 429
                => call'.userRequests = call.userRequests /\ call'.passed = call.passed
           /\ call'.last.code = 200
                => /\ call'.passed[u] = Append(call.passed[u], now)
                   /\ call'.userRequests[u][Len(call'.userRequests[u])] = now
           /\ \A k \in 1..Len(call'.userRequests[u]) :
                call'.userRequests[u][k] > now - call.windowMs
           /\ \A v \in Users \ {u} :
                /\ call'.userRequests[v] = call.userRequests[v]
                /\ call'.passed[v] = call.passed[v]
           /\ C25_WindowLimit']_vars

\* a user was refused with 429 at a time when the other user's request had
\* been passed, and was passed again once the window had moved on
C25_Witness ==
  /\ call.fn = "rateLimitByUser"
  /\ call.last = [user |-> "u1", code |-> 429]
  /\ Len(call.passed["u1"]) > call.maxRequests
  /\ Len(call.passed["u2"]) > 0
  /\ Len(call.userRequests["u1"]) = call.maxRequests

\* C26: when a submit request that has begun grading ends in an error, no
\* Answer row created by the request remains, the submission is in_progress
\* with the score fields and completed_at it had when the request loaded
\* it, and the user's statistics are those the request found.
C26_Original ==
  [][\A r \in Req :
       (/\ req[r].pc \in {"submit_grade", "submit_complete", "submit_stats",
                          "submit_feedback"}
        /\ req'[r].pc = "idle"
        /\ res'.code = 500)
       => LET sid == req[r].submission_id
              created == {req[r].answerResults[n].question_id :
                            n \in 1..Len(req[r].answerResults)}
          IN /\ \A k \in 1..Len(answers') :
                  ~(/\ answers'[k].submission_id = sid
                    /\ answers'[k].question_id \in created)
             /\ submissions'[sid].status = "in_progress"
             /\ submissions'[sid].completed_at = Null
             /\ submissions'[sid].correct_answers = 0
             /\ submissions'[sid].total_points_earned = 0
             /\ submissions'[sid].score_percentage = Null
             /\ users'[req[r].user] = users[req[r].user]]_vars

\* every request is idle
AtRest == \A r \in Req : req[r].pc = "idle"

\* C27: of the submit requests working on one in_progress submission at
\* most one completes it: a request sets it completed only while it is still
\* in_progress, and once the requests have finished the user's
\* total_quizzes_attempted has risen by 1 and correct_answers and
\* total_points_earned are the count and the sum over the stored Answers.
C27_Original ==
  [][/\ \A r \in Req :
          (req[r].pc = "submit_grade" /\ req'[r].pc = "submit_complete")
          => submissions[req[r].submission_id].status = "in_progress"
     /\ \A i \in 1..Len(submissions') :
          (AtRest' /\ submissions'[i].status = "completed"
             /\ submissions'[i].score_percentage # Null)
          => /\ users'[Owner].total_quizzes_attempted = 1
             /\ submissions'[i].correct_answers =
                  Cardinality({k \in 1..Len(answers') :
                                 /\ answers'[k].submission_id = i
                                 /\ answers'[k].is_correct})
             /\ submissions'[i].total_points_earned =
                  SumSeq([k \in 1..Len(answers') |->
                            IF answers'[k].submission_id = i
                              THEN answers'[k].points_earned ELSE 0])]_vars

\* C28: when no request is in progress, the user's total_quizzes_attempted
\* is the number of the user's completed submissions.
C28_Original ==
  AtRest
  => users[Owner].total_quizzes_attempted =
       Cardinality({i \in SubmissionIdsOf(Owner) : submissions[i].status = "completed"})

\* a startQuiz of user u served now on the active quiz creates a new attempt
StartWouldCreate(u) ==
  /\ ~AttemptLimitReached(CountAttempts(u), quiz.max_attempts)
  /\ InProgressIds(u) = {}
  /\ AttemptNumberFree(u, NextAttemptNumber(CountAttempts(u)))

\* C29 as stated: when submitQuiz completes a submission of a quiz that is
\* active and as the request loaded it, can_retry is true exactly when a
\* startQuiz of the same user served next would create a new attempt and
\* false exactly when it would be rejected with MAX_ATTEMPTS_REACHED.
C29_Original ==
  [][\A r \in Req :
       (/\ req[r].pc = "submit_feedback" /\ req'[r].pc = "idle"
        /\ quiz = req[r].quiz /\ quiz.is_active
        /\ res'.code = 200)
       => \A u \in Users :
            u = req[r].user
            => /\ res'.can_retry <=> StartWouldCreate(u)'
               /\ (~res'.can_retry) <=>
                    AttemptLimitReached(CountAttempts(u), quiz.max_attempts)']_vars

\* C30: the values startQuiz passes to Submission.create leave no attribute
\* that is declared non-null without a default unset, and every stored
\* submission, whatever its status, has a score_percentage within 0..100.
C30_Original ==
  [][\A r \in Req :
       (req[r].pc = "start_create" /\ req'[r].pc = "idle" /\ res'.code = 201)
       => /\ NotNullViolations(StartQuizValues(req[r].user, res'.attempt_number)) = {}
          /\ \A k \in DOMAIN StartQuizValues(req[r].user, res'.attempt_number) :
               submissions'[res'.submission_id][k] =
                 StartQuizValues(req[r].user, res'.attempt_number)[k]
          /\ \A i \in 1..Len(submissions') :
               ScoreValid(submissions'[i].score_percentage)]_vars
====
